---------------------------- MODULE Spec2Model ----------------------------
(***************************************************************************)
(* A model of vip, a modal (vi-style) pixel editor.                        *)
(*                                                                         *)
(*   - src/src/main.rs holds the application: the selection geometry       *)
(*     (VisualType::select_pixels), the handlers registered by create_ui   *)
(*     (objects, verbs, commands, key bindings, the edit callback) and the *)
(*     main loop.                                                          *)
(*   - the modal dispatcher itself (module ui: Ui::input, set_mode,        *)
(*     wrapping_displace, get_selection, bind_key, close) and the key      *)
(*     token model (module keyboard) are not part of the sources at hand;  *)
(*     they are modelled from sections 4.1, 4.3, 4.4 and 4.5 of the        *)
(*     specification.                                                      *)
(***************************************************************************)
EXTENDS Integers, Sequences, FiniteSets, TLC

(***************************************************************************)
(* Bounds of the model.                                                    *)
(***************************************************************************)
\* Largest coordinate of the rectangles handed to select_pixels when the
\* selection geometry is checked on its own.
GeoMax == 6

(***************************************************************************)
(* Selection geometry: VisualType::select_pixels (main.rs 46-84).          *)
(***************************************************************************)
VisualType == {"Square", "Circle"}

\* The Rust range lo..hi: lo included, hi excluded.
Range(lo, hi) == {n \in lo..(hi - 1) : TRUE}

\* isize arithmetic helpers of the Circle arm.
AbsInt(n) == IF n < 0 THEN -n ELSE n

\* The coordinates both arms iterate over:
\*   (x1..x2+1).flat_map(|x| (y1..y2+1).map(move |y| (x, y)))
BoundingCoords(x1, y1, x2, y2) ==
    {<<x, y>> : x \in Range(x1, x2 + 1), y \in Range(y1, y2 + 1)}

\* Mutant: the ranges written x1..x2 and y1..y2 (the upper corner left out).
SquareArmOpen(set, x1, y1, x2, y2) ==
    set \cup {<<x, y>> : x \in Range(x1, x2), y \in Range(y1, y2)}

\* VisualType::Square => every coordinate of the iteration gets set_bit.
SquareArm(set, x1, y1, x2, y2) ==
    set \cup BoundingCoords(x1, y1, x2, y2)

\* let (mx, my) = (((x1+x2) / 2) as isize, ((y1+y2) / 2) as isize);
CircleCenter(x1, y1, x2, y2) == <<(x1 + x2) \div 2, (y1 + y2) \div 2>>

\* Mutant: the radius taken from the height of the rectangle.
CircleW2Height(x1, y1, x2, y2) == y2 - y1

\* let w = (x2 - x1) as f32 / 2.0;  -- kept in halves: the value is W2/2.
\* Every f32 of this arm is a multiple of 1/4 far below 2^24, so the f32
\* arithmetic is exact and is carried out here in units of 1/4.
CircleW2(x1, y1, x2, y2) == x2 - x1

\* let dd = (dx*dx + dy*dy) as f32;
CircleDD(m, x, y) ==
    LET dx == m[1] - x
        dy == m[2] - y
    IN  dx * dx + dy * dy

\* Mutant: a filled disk (dd <= w*w + 2) instead of the ring.
CircleTestDisk(dd, w2) == 4 * dd - w2 * w2 <= 8

\* (dd - w*w).abs() <= 2.0, in units of 1/4: dd is 4*dd quarters, w*w is
\* W2*W2 quarters, 2.0 is 8 quarters.
CircleTest(dd, w2) == AbsInt(4 * dd - w2 * w2) <= 8

\* VisualType::Circle => set_bit for the coordinates that pass the test.
CircleArm(set, x1, y1, x2, y2) ==
    LET m  == CircleCenter(x1, y1, x2, y2)
        w2 == CircleW2(x1, y1, x2, y2)
    IN  set \cup {p \in BoundingCoords(x1, y1, x2, y2) :
                     CircleTest(CircleDD(m, p[1], p[2]), w2)}

\* fn select_pixels(&self, set, (x1, y1), (x2, y2)): bits are added to set.
select_pixels(self, set, a, b) ==
    IF self = "Square"
    THEN SquareArm(set, a[1], a[2], b[1], b[2])
    ELSE CircleArm(set, a[1], a[2], b[1], b[2])

(***************************************************************************)
(* The canvas and the palette (main.rs 295-311).                           *)
(***************************************************************************)
\* let (width, height) = (16, 16); Canvas::new(width, height).  The model
\* checks a smaller canvas; width and height differ so that an exchange of
\* the two shows.
CanvasW == 6
CanvasH == 3

Coords == (0..(CanvasW - 1)) \X (0..(CanvasH - 1))

\* Colours: "new" is the colour Canvas::new gives a pixel; "white" is
\* (255,255,255), "red" (255,0,0), "green" (0,255,0), "blue" (0,0,255).
palette == [a |-> "red", z |-> "green", e |-> "blue"]

\* canvas.set_pixel_color(x, y, color) for every coordinate of a set.
set_pixels(cv, ps, color) ==
    [p \in DOMAIN cv |-> IF p \in ps THEN color ELSE cv[p]]

(***************************************************************************)
(* Key tokens (specification 4.1).  A text is a sequence of characters; a  *)
(* bare character is a token, and <Name> is the token of a named key.      *)
(***************************************************************************)
RECURSIVE Join(_)
Join(s) == IF s = <<>> THEN "" ELSE Head(s) \o Join(Tail(s))

\* The index of the first ">" of a text, 0 when there is none.
RECURSIVE CloseAt(_, _)
CloseAt(text, i) ==
    IF i > Len(text) THEN 0
    ELSE IF text[i] = ">" THEN i
    ELSE CloseAt(text, i + 1)

RECURSIVE parse(_)
parse(text) ==
    IF text = <<>> THEN <<>>
    ELSE IF Head(text) = "<" /\ CloseAt(text, 2) > 0
         THEN <<Join(SubSeq(text, 1, CloseAt(text, 2)))>>
                  \o parse(SubSeq(text, CloseAt(text, 2) + 1, Len(text)))
         ELSE <<Head(text)>> \o parse(Tail(text))

\* A token that stands for one printable character.
Printable(tok) == tok \notin {"<Esc>", "<Enter>", "<Left>", "<Right>", "<Down>", "<Up>", "<S-+>"}

(***************************************************************************)
(* The engine's state as one record, so that a handler is a function from  *)
(* state to state and handlers compose (an object, then the pending verb). *)
(***************************************************************************)
Modes == {"Normal", "Insertion", "Visual", "Command"}

NoAnchor == <<>>
NoVerb == ""

\* Ui::cursor()
ui_cursor(st) == st.cursor

\* Ui::get_mode()
get_mode(st) == st.mode

\* Ui::set_mode: the anchor exists only while the mode is Visual; entering
\* Visual sets it to the current cursor (specification 3 and 4.5 step 5).
set_mode(st, m) ==
    [st EXCEPT !.mode = m,
               !.anchor = IF m = "Visual" THEN st.cursor ELSE NoAnchor]

Min(a, b) == IF a <= b THEN a ELSE b
Max(a, b) == IF a <= b THEN b ELSE a

\* Ui::get_selection: the anchor/cursor rectangle, x1 = min, etc.
get_selection(st) ==
    LET a == IF st.anchor = NoAnchor THEN st.cursor ELSE st.anchor
        c == st.cursor
    IN  << <<Min(a[1], c[1]), Min(a[2], c[2])>>,
           <<Max(a[1], c[1]), Max(a[2], c[2])>> >>

\* Ui::wrapping_displace(dx, dy, w, h): movement wraps modulo (w, h).
wrapping_displace(st, dx, dy, w, h) ==
    [st EXCEPT !.cursor = <<(st.cursor[1] + w + dx) % w,
                            (st.cursor[2] + h + dy) % h>>]

\* Ui::close
ui_close(st) == [st EXCEPT !.closed = TRUE]

\* Ui::bind_key(trigger_text, mode, expansion_text): last write wins.
bind_key(st, trigger, m, expansion) ==
    [st EXCEPT !.bindings = (<<m, parse(trigger)>> :> parse(expansion)) @@ st.bindings]

\* A handler that panics (unwrap of None, index out of bounds) aborts the
\* process where it stands.
panic(st) == [st EXCEPT !.proc = "panicked"]

(***************************************************************************)
(* The handlers create_ui registers (main.rs 87-217).                      *)
(***************************************************************************)
\* Mutant: the edit callback painting the cursor pixel whatever the selection.
edit_cursor_only(st, c) ==
    IF c \in DOMAIN palette
    THEN [st EXCEPT !.canvas = set_pixels(st.canvas, {ui_cursor(st)}, palette[c])]
    ELSE st

\* Ui::new(|ui, UiState { selection, canvas, palette, ..}, c| ...), 88-99.
edit(st, c) ==
    IF c \in DOMAIN palette
    THEN IF st.selection = {}
         THEN [st EXCEPT !.canvas = set_pixels(st.canvas, {ui_cursor(st)}, palette[c])]
         ELSE [st EXCEPT !.canvas = set_pixels(st.canvas, st.selection, palette[c])]
    ELSE st

\* "hjkl.".chars().zip([(-1,0),(0,1),(0,-1),(1,0),(0,0)]), 117-119.
ObjectNames == {"h", "j", "k", "l", "."}

\* Mutant: j and k exchanged.
ObjectDeltaSwapped(l) ==
    CASE l = "h" -> <<-1, 0>>
      [] l = "j" -> <<0, -1>>
      [] l = "k" -> <<0, 1>>
      [] l = "l" -> <<1, 0>>
      [] l = "." -> <<0, 0>>

\* Mutant: h does not move.
ObjectDeltaStuck(l) ==
    CASE l = "h" -> <<0, 0>>
      [] l = "j" -> <<0, 1>>
      [] l = "k" -> <<0, -1>>
      [] l = "l" -> <<1, 0>>
      [] l = "." -> <<0, 0>>

ObjectDelta(l) ==
    CASE l = "h" -> <<-1, 0>>
      [] l = "j" -> <<0, 1>>
      [] l = "k" -> <<0, -1>>
      [] l = "l" -> <<1, 0>>
      [] l = "." -> <<0, 0>>

\* Mutant: the displacement wrapped with (h, w) instead of (w, h).
object_swapped_size(st, l) ==
    LET st1 == wrapping_displace(st, ObjectDelta(l)[1], ObjectDelta(l)[2], CanvasH, CanvasW)
    IN  [state |-> st1, positions |-> {ui_cursor(st), ui_cursor(st1)}]

\* ui.add_object(l, move |ui, UiState { canvas,.. }, positions| ...), 122-127:
\* the state after the handler and the positions it inserted.
object(st, l) ==
    LET st1 == wrapping_displace(st, ObjectDelta(l)[1], ObjectDelta(l)[2], CanvasW, CanvasH)
    IN  [state |-> st1, positions |-> {ui_cursor(st), ui_cursor(st1)}]

\* Option<&HashSet<(usize, usize)>>: the positions handed to a verb's action.
NonePositions == [some |-> FALSE, set |-> {}]
SomePositions(ps) == [some |-> TRUE, set |-> ps]

\* The verbs and whether each requires positions (add_verb's second argument).
VerbNames == {"s", "<S-+>", "-", ":", "i", "v", "V", "H", "J", "K", "L", "_", "<Esc>"}

requires_positions(v) == v \in {"s", "_"}

\* Mutant: s painting only the position the motion ended on.
verb_s_end_only(st, positions) ==
    IF ~positions.some
    THEN panic(st)
    ELSE [st EXCEPT !.canvas = set_pixels(st.canvas, {ui_cursor(st)}, "white")]

\* ui.add_verb("s", true, ...), 131-136: positions.unwrap() panics on None.
verb_s(st, positions) ==
    IF ~positions.some
    THEN panic(st)
    ELSE [st EXCEPT !.canvas = set_pixels(st.canvas, positions.set, "white")]

\* ui.add_verb("<S-+>" | "-" | "H" | "J" | "K" | "L", false, ...), 139-146 and
\* 176-187: zoom and center are view fields, which the model does not hold.
verb_view(st) == st

\* ui.add_verb(":", false, ...), 149-151.
verb_colon(st) == set_mode(st, "Command")

\* Mutant: i without selection.clear().
verb_i_keep(st) ==
    LET st1 == IF get_mode(st) = "Visual"
               THEN [st EXCEPT !.selection =
                        select_pixels(st.visual_type, st.selection,
                                      get_selection(st)[1], get_selection(st)[2])]
               ELSE st
    IN  set_mode(st1, "Insertion")

\* Mutant: i materializes the rectangle whatever the mode.
verb_i_always(st) ==
    set_mode([st EXCEPT !.selection =
                 select_pixels(st.visual_type, {},
                               get_selection(st)[1], get_selection(st)[2])],
             "Insertion")

\* Mutant: i fills the selection with the whole rectangle under either policy.
verb_i_square(st) ==
    LET st1 == IF get_mode(st) = "Visual"
               THEN [st EXCEPT !.selection =
                        select_pixels("Square", {},
                                      get_selection(st)[1], get_selection(st)[2])]
               ELSE st
    IN  set_mode(st1, "Insertion")

\* ui.add_verb("i", false, ...), 154-161.
verb_i(st) ==
    LET st1 == IF get_mode(st) = "Visual"
               THEN [st EXCEPT !.selection =
                        select_pixels(st.visual_type, {},
                                      get_selection(st)[1], get_selection(st)[2])]
               ELSE st
    IN  set_mode(st1, "Insertion")

\* Mutant: v sets the policy and forgets ui.set_mode.
verb_v_policy_only(st) == [st EXCEPT !.visual_type = "Square"]

\* ui.add_verb("v", false, ...), 164-167.
verb_v(st) == set_mode([st EXCEPT !.visual_type = "Square"], "Visual")

\* ui.add_verb("V", false, ...), 170-173.
verb_V(st) == set_mode([st EXCEPT !.visual_type = "Circle"], "Visual")

\* ui.add_verb("_", true, |_,_,_| {}), 199.
verb_underscore(st, positions) == st

\* Mutant: Escape leaves the selection as it is.
verb_esc_noop(st) == st

\* ui.add_verb("<Esc>", false, ...), 212-214.
verb_esc(st) == [st EXCEPT !.selection = {}]

\* The action registered for verb v, called with positions.
verb_action(st, v, positions) ==
    CASE v = "s" -> verb_s(st, positions)
      [] v \in {"<S-+>", "-", "H", "J", "K", "L"} -> verb_view(st)
      [] v = ":" -> verb_colon(st)
      [] v = "i" -> verb_i(st)
      [] v = "v" -> verb_v(st)
      [] v = "V" -> verb_V(st)
      [] v = "_" -> verb_underscore(st, positions)
      [] v = "<Esc>" -> verb_esc(st)

CommandNames == {"q", "quit", "imap"}

\* Mutant: q does nothing.
cmd_q_noop(st, args) == st

\* ui.add_command("q", |ui, _, _| ui.close()), 190-192.
cmd_q(st, args) == ui_close(st)

\* ui.add_command("quit", |ui, _, _| ui.close()), 194-196.
cmd_quit(st, args) == ui_close(st)

\* Mutant: args[1] bound as the trigger and args[0] as its expansion.
cmd_imap_swapped(st, args) ==
    IF Len(args) < 2
    THEN panic(st)
    ELSE bind_key(st, args[2], "Insertion", args[1])

\* ui.add_command("imap", |ui, _, args| ui.bind_key(args[0], Insertion, args[1])),
\* 208-210: args[0] and args[1] panic when args is shorter.
cmd_imap(st, args) ==
    IF Len(args) < 2
    THEN panic(st)
    ELSE bind_key(st, args[1], "Insertion", args[2])

command(st, name, args) ==
    CASE name = "q" -> cmd_q(st, args)
      [] name = "quit" -> cmd_quit(st, args)
      [] name = "imap" -> cmd_imap(st, args)

\* Mutant: <Left> bound to "<Esc>li", the expansion of <Right>.
DefaultBindingsLeftRight ==
    LET t(name) == <<"<">> \o name \o <<">">>
        esc == <<"<", "E", "s", "c", ">">>
        b0 == [bindings |-> <<>>]
        b1 == bind_key(b0, t(<<"L", "e", "f", "t">>), "Insertion", esc \o <<"l", "i">>)
        b2 == bind_key(b1, t(<<"R", "i", "g", "h", "t">>), "Insertion", esc \o <<"l", "i">>)
        b3 == bind_key(b2, t(<<"D", "o", "w", "n">>), "Insertion", esc \o <<"j", "i">>)
        b4 == bind_key(b3, t(<<"U", "p">>), "Insertion", esc \o <<"k", "i">>)
    IN  b4.bindings

\* ui.bind_key("<Left>", ui::Mode::Insertion, "<Esc>hi") and the three others,
\* 202-205.
DefaultBindings ==
    LET t(name) == <<"<">> \o name \o <<">">>
        esc == <<"<", "E", "s", "c", ">">>
        b0 == [bindings |-> <<>>]
        b1 == bind_key(b0, t(<<"L", "e", "f", "t">>), "Insertion", esc \o <<"h", "i">>)
        b2 == bind_key(b1, t(<<"R", "i", "g", "h", "t">>), "Insertion", esc \o <<"l", "i">>)
        b3 == bind_key(b2, t(<<"D", "o", "w", "n">>), "Insertion", esc \o <<"j", "i">>)
        b4 == bind_key(b3, t(<<"U", "p">>), "Insertion", esc \o <<"k", "i">>)
    IN  b4.bindings

(***************************************************************************)
(* The frame (main.rs 369-378).                                            *)
(***************************************************************************)
\* Mutant: outside Visual mode the selection is taken even when it is empty.
highlight_selection_only(st) ==
    IF get_mode(st) = "Visual"
    THEN select_pixels(st.visual_type, {}, get_selection(st)[1], get_selection(st)[2])
    ELSE st.selection

\* let set = if ui.get_mode() == ui::Mode::Visual { ... } else if
\* state.selection.is_empty() { [ui.cursor()] } else { state.selection.clone() }.
highlight(st) ==
    IF get_mode(st) = "Visual"
    THEN select_pixels(st.visual_type, {}, get_selection(st)[1], get_selection(st)[2])
    ELSE IF st.selection = {}
         THEN {ui_cursor(st)}
         ELSE st.selection

(***************************************************************************)
(* The modal dispatcher (specification 4.3 and 4.5).                       *)
(***************************************************************************)
\* The largest expansion depth (specification 4.3 recommends 32).
MaxDepth == 32

\* resolve(mode, trigger): exact lookup; [found |-> FALSE] when unbound.
resolve(st, m, tok) ==
    IF <<m, <<tok>>>> \in DOMAIN st.bindings
    THEN [found |-> TRUE, expansion |-> st.bindings[<<m, <<tok>>>>]]
    ELSE [found |-> FALSE]

\* The words of a command line: the text split at spaces.
RECURSIVE Words(_, _)
Words(text, word) ==
    IF text = <<>>
    THEN IF word = <<>> THEN <<>> ELSE <<word>>
    ELSE IF Head(text) = " "
         THEN (IF word = <<>> THEN <<>> ELSE <<word>>) \o Words(Tail(text), <<>>)
         ELSE Words(Tail(text), Append(word, Head(text)))

\* Mutant: the buffer is kept when the command name is unknown.
command_line_keep(st) ==
    LET ws == Words(st.buffer, <<>>)
        done(s) == IF s.proc = "panicked" THEN s
                   ELSE set_mode([s EXCEPT !.buffer = <<>>], "Normal")
    IN  IF ws # <<>> /\ Join(ws[1]) \in CommandNames
        THEN done(command([st EXCEPT !.status = ""], Join(ws[1]), Tail(ws)))
        ELSE set_mode([st EXCEPT !.status = "UnknownCommand"], "Normal")

\* Step 2, Enter: run the line, clear the buffer, return to Normal.
command_line(st) ==
    LET ws == Words(st.buffer, <<>>)
        done(s) == IF s.proc = "panicked" THEN s
                   ELSE set_mode([s EXCEPT !.buffer = <<>>], "Normal")
    IN  IF ws # <<>> /\ Join(ws[1]) \in CommandNames
        THEN done(command([st EXCEPT !.status = ""], Join(ws[1]), Tail(ws)))
        ELSE done([st EXCEPT !.status = "UnknownCommand"])

\* Step 2: a token in Command mode.
dispatch_command(st, tok) ==
    CASE tok = "<Esc>" -> set_mode([verb_esc(st) EXCEPT !.buffer = <<>>], "Normal")
      [] tok = "<Enter>" -> command_line(st)
      [] OTHER -> IF Printable(tok)
                  THEN [st EXCEPT !.buffer = Append(st.buffer, tok)]
                  ELSE st

\* Step 3: a token in Insertion mode: a verb fires at once with no position
\* set; any other token goes to the edit callback.  Escape returns to Normal.
dispatch_insertion(st, tok) ==
    IF tok \in VerbNames
    THEN LET st1 == verb_action(st, tok, NonePositions)
         IN  IF st1.proc = "panicked" \/ tok # "<Esc>" THEN st1
             ELSE set_mode(st1, "Normal")
    ELSE edit(st, tok)

\* Mutant: an unmatched token leaves the pending verb waiting.
dispatch_normal_leak(st, tok) ==
    IF tok \in VerbNames
    THEN IF requires_positions(tok)
         THEN [st EXCEPT !.pending = tok]
         ELSE LET st1 == verb_action(st, tok, NonePositions)
              IN  IF tok = "<Esc>" THEN set_mode(st1, "Normal") ELSE st1
    ELSE IF tok \in ObjectNames
         THEN LET r == object(st, tok)
              IN  IF st.pending # NoVerb
                  THEN verb_action([r.state EXCEPT !.pending = NoVerb],
                                   st.pending, SomePositions(r.positions))
                  ELSE r.state
         ELSE st

\* Step 4: a token in Normal or Visual mode.
dispatch_normal(st, tok) ==
    IF tok \in VerbNames
    THEN IF requires_positions(tok)
         THEN [st EXCEPT !.pending = tok]
         ELSE LET st1 == verb_action(st, tok, NonePositions)
              IN  IF tok = "<Esc>" THEN set_mode(st1, "Normal") ELSE st1
    ELSE IF tok \in ObjectNames
         THEN LET r == object(st, tok)
              IN  IF st.pending # NoVerb
                  THEN verb_action([r.state EXCEPT !.pending = NoVerb],
                                   st.pending, SomePositions(r.positions))
                  ELSE r.state
         ELSE [st EXCEPT !.pending = NoVerb]

\* Step 1: one token at expansion depth `depth`; st.work holds the tokens
\* still to process after it.  A bound token is replaced by its expansion,
\* one level deeper; past MaxDepth the remaining expansion is dropped
\* (RemapCycle).
process(st, tok, depth) ==
    LET r == resolve(st, st.mode, tok)
    IN  IF r.found
        THEN IF depth + 1 > MaxDepth
             THEN [st EXCEPT !.work = <<>>, !.status = "RemapCycle"]
             ELSE [st EXCEPT !.work =
                      [i \in 1..Len(r.expansion) |->
                          [tok |-> r.expansion[i], depth |-> depth + 1]] \o st.work]
        ELSE CASE st.mode = "Command" -> dispatch_command(st, tok)
               [] st.mode = "Insertion" -> dispatch_insertion(st, tok)
               [] OTHER -> dispatch_normal(st, tok)

(***************************************************************************)
(* State.                                                                  *)
(***************************************************************************)
VARIABLES
    \* the engine (Ui)
    mode,         \* Normal, Insertion, Visual or Command
    cursor,       \* <<x, y>>
    anchor,       \* the selection anchor, NoAnchor when there is none
    pending,      \* the verb waiting for its object, NoVerb when there is none
    buffer,       \* the text typed in Command mode, a sequence of characters
    closed,       \* a handler has called close()
    bindings,     \* <<mode, trigger tokens>> -> expansion tokens
    work,         \* tokens of an expansion still to process: [tok, depth]
    status,       \* the status line: "", "UnknownCommand" or "RemapCycle"
    \* the application (UiState)
    visual_type,  \* Square or Circle
    selection,    \* the persisted selection set
    canvas,       \* coordinate -> colour
    \* the process
    proc,         \* "running", "exited" (main_loop left) or "panicked"
    \* the input enumerated so far
    nkeys,        \* keys pressed outside Command mode
    ncmds,        \* command lines entered
    \* an observer of the keys pressed
    observe,      \* whether the observer is on
    runKey,       \* the key pressed last
    runLen,       \* how many times in a row it has been pressed
    runStart,     \* the cursor before the first press of the run
    \* the selection geometry on its own
    gphase,       \* "off"; or "input" before the call, "done" after it
    gtype,        \* the VisualType the call is made on
    gfrom,        \* the corner (x1, y1)
    gto,          \* the corner (x2, y2)
    gprior,       \* the set as it was before the call
    gset          \* the set handed to select_pixels

evars == <<mode, cursor, anchor, pending, buffer, closed, bindings, work, status,
           visual_type, selection, canvas, proc>>

bvars == <<nkeys, ncmds>>

ovars == <<observe, runKey, runLen, runStart>>

gvars == <<gphase, gtype, gfrom, gto, gprior, gset>>

vars == <<mode, cursor, anchor, pending, buffer, closed, bindings, work, status,
          visual_type, selection, canvas, proc, nkeys, ncmds,
          observe, runKey, runLen, runStart,
          gphase, gtype, gfrom, gto, gprior, gset>>

\* The state as a record, and the record written back.
State ==
    [mode |-> mode, cursor |-> cursor, anchor |-> anchor, pending |-> pending,
     buffer |-> buffer, closed |-> closed, bindings |-> bindings, work |-> work,
     status |-> status, visual_type |-> visual_type, selection |-> selection,
     canvas |-> canvas, proc |-> proc]

Commit(st) ==
    /\ mode' = st.mode
    /\ cursor' = st.cursor
    /\ anchor' = st.anchor
    /\ pending' = st.pending
    /\ buffer' = st.buffer
    /\ closed' = st.closed
    /\ bindings' = st.bindings
    /\ work' = st.work
    /\ status' = st.status
    /\ visual_type' = st.visual_type
    /\ selection' = st.selection
    /\ canvas' = st.canvas
    /\ proc' = st.proc

(***************************************************************************)
(* Construction: create_ui and the UiState of main (main.rs 306-323).      *)
(***************************************************************************)
EngineStart(m, c, a, b) ==
    /\ mode = m
    /\ cursor = c
    /\ anchor = a
    /\ pending = NoVerb
    /\ buffer = <<>>
    /\ closed = FALSE
    /\ bindings = b
    /\ work = <<>>
    /\ status = ""
    /\ visual_type = "Square"
    /\ selection = {}
    /\ canvas = [p \in Coords |-> "new"]
    /\ proc = "running"

EngineInit == EngineStart("Normal", <<0, 0>>, NoAnchor, DefaultBindings)

BudgetInit == nkeys = 0 /\ ncmds = 0

ObserverOff ==
    /\ observe = FALSE
    /\ runKey = ""
    /\ runLen = 0
    /\ runStart = <<0, 0>>

GeoOff ==
    /\ gphase = "off"
    /\ gtype = "Square"
    /\ gfrom = <<0, 0>>
    /\ gto = <<0, 0>>
    /\ gprior = {}
    /\ gset = {}

(***************************************************************************)
(* The steps of the engine.                                                *)
(***************************************************************************)
\* The observer's record of a key press.
Observe(k) ==
    IF observe
    THEN /\ runKey' = k
         /\ runLen' = IF k = runKey THEN runLen + 1 ELSE 1
         /\ runStart' = IF k = runKey THEN runStart ELSE cursor
         /\ UNCHANGED observe
    ELSE UNCHANGED ovars

\* A key event reaches the dispatcher: the token is processed at depth 0.
KeyEvent(k) ==
    /\ proc = "running"
    /\ work = <<>>
    /\ Commit(process(State, k, 0))
    /\ Observe(k)
    /\ UNCHANGED gvars

\* The dispatcher takes the next token of a pending expansion.
Expand ==
    /\ proc = "running"
    /\ work # <<>>
    /\ Commit(process([State EXCEPT !.work = Tail(work)], Head(work).tok, Head(work).depth))
    /\ UNCHANGED <<bvars, ovars, gvars>>

\* main_loop: if !ui.input(&mut glfw, &mut state) { break 'main_loop }, 347-348.
\* A call of input reports closed (false) once close() has been called.
InputCall ==
    /\ proc = "running"
    /\ work = <<>>
    /\ proc' = IF closed THEN "exited" ELSE proc
    /\ UNCHANGED <<mode, cursor, anchor, pending, buffer, closed, bindings, work,
                   status, visual_type, selection, canvas>>
    /\ UNCHANGED <<bvars, ovars, gvars>>

(***************************************************************************)
(* The editor: keys and command lines from bounded sets.                   *)
(***************************************************************************)
\* Keys pressed outside Command mode.
MaxKeys == 5
\* Command lines entered.
MaxCmds == 2

PaletteKeys == DOMAIN palette
ArrowKeys == {"<Left>", "<Right>", "<Down>", "<Up>"}

\* The keys pressed outside Command mode: every registered object and verb,
\* the palette, the arrows, Enter, and "x", which nothing registers.
Keys == ObjectNames \cup VerbNames \cup PaletteKeys \cup ArrowKeys \cup {"<Enter>", "x"}

\* The command lines typed, character by character, in Command mode.
CmdLines ==
    { <<>>,
      <<"q">>,
      <<"q", "u", "i", "t">>,
      <<"x">>,
      <<"i", "m", "a", "p">>,
      <<"i", "m", "a", "p", " ", "a">>,
      <<"i", "m", "a", "p", " ", "a", " ", "z">>,
      <<"i", "m", "a", "p", " ", "a", " ", "e">>,
      <<"i", "m", "a", "p", " ", "z", " ", "a">> }

CmdChars == {"q", "u", "i", "t", "x", "m", "a", "p", " ", "z", "e"}

IsPrefix(s, t) == Len(s) <= Len(t) /\ s = SubSeq(t, 1, Len(s))

\* A key pressed in Normal, Insertion or Visual mode.
Key(k) ==
    /\ mode # "Command"
    /\ nkeys < MaxKeys
    /\ KeyEvent(k)
    /\ nkeys' = nkeys + 1
    /\ UNCHANGED ncmds

\* A character of one of the command lines typed in Command mode.
CommandChar(c) ==
    /\ mode = "Command"
    /\ \E line \in CmdLines : IsPrefix(Append(buffer, c), line)
    /\ KeyEvent(c)
    /\ UNCHANGED bvars

\* Enter pressed at the end of one of the command lines.
CommandEnter ==
    /\ mode = "Command"
    /\ buffer \in CmdLines
    /\ ncmds < MaxCmds
    /\ KeyEvent("<Enter>")
    /\ ncmds' = ncmds + 1
    /\ UNCHANGED nkeys

\* Escape pressed in Command mode.
CommandEscape ==
    /\ mode = "Command"
    /\ KeyEvent("<Esc>")
    /\ UNCHANGED bvars

Init == EngineInit /\ BudgetInit /\ ObserverOff /\ GeoOff

Next ==
    \/ \E k \in Keys : Key(k)
    \/ \E c \in CmdChars : CommandChar(c)
    \/ CommandEnter
    \/ CommandEscape
    \/ Expand
    \/ InputCall

Spec == Init /\ [][Next]_vars

(***************************************************************************)
(* The motions on their own: from any cursor position, in Normal or Visual *)
(* mode with no verb pending, runs of the four directional keys, watched   *)
(* by the observer.                                                        *)
(***************************************************************************)
\* The longest run of one key.
MaxRun == 7

MotionKeys == {"h", "j", "k", "l"}

MotionInit ==
    /\ \E c \in Coords, a \in Coords, m \in {"Normal", "Visual"} :
           EngineStart(m, c, IF m = "Visual" THEN a ELSE NoAnchor, DefaultBindings)
    /\ BudgetInit
    /\ GeoOff
    /\ observe = TRUE
    /\ runKey = ""
    /\ runLen = 0
    /\ runStart = cursor

\* One of h, j, k, l pressed.
MotionKey(k) ==
    /\ k = runKey => runLen < MaxRun
    /\ KeyEvent(k)
    /\ UNCHANGED bvars

MotionNext == \E k \in MotionKeys : MotionKey(k)

MotionSpec == MotionInit /\ [][MotionNext]_vars

(***************************************************************************)
(* C4: on a w-by-h canvas, from any cursor position and with no verb       *)
(* pending, w consecutive applications of l (or of h) and h consecutive    *)
(* applications of j (or of k) return the cursor to where it started; h    *)
(* moves x by -1, l by +1, k moves y by -1, j by +1, each modulo the       *)
(* canvas dimension.                                                       *)
(***************************************************************************)
\* n steps of one unit from p, along x or along y, modulo the canvas.
Shifted(p, sx, sy, n) ==
    <<(p[1] + n * (CanvasW + sx)) % CanvasW, (p[2] + n * (CanvasH + sy)) % CanvasH>>

C4_MotionCycle ==
    (observe /\ runLen > 0) =>
        /\ runKey = "h" => cursor = Shifted(runStart, -1, 0, runLen)
        /\ runKey = "l" => cursor = Shifted(runStart, 1, 0, runLen)
        /\ runKey = "k" => cursor = Shifted(runStart, 0, -1, runLen)
        /\ runKey = "j" => cursor = Shifted(runStart, 0, 1, runLen)
        /\ (runKey \in {"h", "l"} /\ runLen = CanvasW) => cursor = runStart
        /\ (runKey \in {"j", "k"} /\ runLen = CanvasH) => cursor = runStart
        /\ (runKey \in {"h", "l"} /\ runLen < CanvasW) => cursor # runStart
        /\ (runKey \in {"j", "k"} /\ runLen < CanvasH) => cursor # runStart

\* A full row walked to the right from the last column: the first step wrapped.
C4_Witness ==
    /\ observe
    /\ runKey = "l"
    /\ runLen = CanvasW
    /\ runStart = <<CanvasW - 1, 1>>
    /\ cursor = runStart

(***************************************************************************)
(* The selection geometry on its own: every normalized rectangle with      *)
(* coordinates up to GeoMax, both policies, an empty or a non-empty set.   *)
(***************************************************************************)
GeoCoords == (0..GeoMax) \X (0..GeoMax)

GeoPriors == {{}, {<<GeoMax, 0>>}}

GeoInit ==
    /\ EngineInit /\ BudgetInit /\ ObserverOff
    /\ gphase = "input"
    /\ gtype \in VisualType
    /\ gfrom \in GeoCoords
    /\ gto \in {p \in GeoCoords : gfrom[1] <= p[1] /\ gfrom[2] <= p[2]}
    /\ gprior \in GeoPriors
    /\ gset = gprior

\* The call visual_type.select_pixels(&mut set, a, b).
GeoSelect ==
    /\ gphase = "input"
    /\ gset' = select_pixels(gtype, gset, gfrom, gto)
    /\ gphase' = "done"
    /\ UNCHANGED <<gtype, gfrom, gto, gprior>>
    /\ UNCHANGED <<evars, bvars, ovars>>

GeoNext == GeoSelect

GeoSpec == GeoInit /\ [][GeoNext]_vars

(***************************************************************************)
(* C1: for every normalized rectangle, select_pixels with the Square       *)
(* policy adds exactly the coordinates (x, y) with x1 <= x <= x2 and       *)
(* y1 <= y <= y2 and no others; a single-point rectangle yields exactly    *)
(* that point, and (1,1)-(3,3) yields exactly 9 coordinates.               *)
(***************************************************************************)
ClosedRect(a, b) ==
    {p \in GeoCoords : a[1] <= p[1] /\ p[1] <= b[1] /\ a[2] <= p[2] /\ p[2] <= b[2]}

C1_SquareExact ==
    (gphase = "done" /\ gtype = "Square") =>
        /\ gset = gprior \cup ClosedRect(gfrom, gto)
        /\ (gfrom = gto /\ gprior = {}) => gset = {gfrom}
        /\ (gfrom = <<1, 1>> /\ gto = <<3, 3>> /\ gprior = {}) =>
               Cardinality(gset) = 9

C1_Witness ==
    /\ gphase = "done"
    /\ gtype = "Square"
    /\ gfrom = <<1, 1>>
    /\ gto = <<3, 3>>
    /\ gprior = {}
    /\ Cardinality(gset) = 9
    /\ <<3, 3>> \in gset

(***************************************************************************)
(* C2: for every normalized rectangle, select_pixels with the Circle       *)
(* policy includes a coordinate of the bounding rectangle iff              *)
(* |d2 - r2| <= 2, with center ((x1+x2) div 2, (y1+y2) div 2), d2 the      *)
(* squared distance to the center and r = (x2-x1)/2 as a real number; the  *)
(* height of the rectangle does not enter the radius.                      *)
(*                                                                         *)
(* The real-number test is stated without fractions: for an even width     *)
(* 2k, r2 = k*k and the test is -2 <= d2 - k*k <= 2; for an odd width      *)
(* 2k+1, r2 = k*k + k + 1/4 and, d2 being an integer, the test is          *)
(* -1 <= d2 - (k*k + k) <= 2.                                              *)
(***************************************************************************)
RingTest(d2, width) ==
    LET k == width \div 2
    IN  IF width % 2 = 0
        THEN -2 <= d2 - k * k /\ d2 - k * k <= 2
        ELSE -1 <= d2 - (k * k + k) /\ d2 - (k * k + k) <= 2

SqDist(p, q) == (p[1] - q[1]) * (p[1] - q[1]) + (p[2] - q[2]) * (p[2] - q[2])

RectCenter(a, b) == <<(a[1] + b[1]) \div 2, (a[2] + b[2]) \div 2>>

C2_CircleRing ==
    (gphase = "done" /\ gtype = "Circle") =>
        /\ \A p \in ClosedRect(gfrom, gto) :
              (p \in gset \ gprior) <=>
                  (/\ RingTest(SqDist(p, RectCenter(gfrom, gto)), gto[1] - gfrom[1])
                   /\ p \notin gprior)
        /\ gset \subseteq gprior \cup ClosedRect(gfrom, gto)
        /\ gprior \subseteq gset

\* A tall, narrow rectangle: the radius is that of the width (1/2), so the
\* far rows are left out although the height would reach them.
C2_Witness ==
    /\ gphase = "done"
    /\ gtype = "Circle"
    /\ gfrom = <<0, 0>>
    /\ gto = <<1, 6>>
    /\ gprior = {}
    /\ <<0, 3>> \in gset
    /\ <<0, 0>> \notin gset

(***************************************************************************)
(* C3: with the Circle policy a single-point rectangle yields exactly that *)
(* point, and the center of the rectangle is excluded whenever r > 0 and   *)
(* r squared exceeds the tolerance 2; for (0,0)-(4,4) the result holds     *)
(* only coordinates whose squared distance to (2,2) is between 2 and 6,    *)
(* and not (2,2).                                                          *)
(***************************************************************************)
C3_CircleCenter ==
    (gphase = "done" /\ gtype = "Circle" /\ gprior = {}) =>
        /\ gfrom = gto => gset = {gfrom}
        \* r > 0 and r*r > 2, with r = (x2 - x1)/2: (x2 - x1)^2 > 8
        /\ (gto[1] > gfrom[1] /\ (gto[1] - gfrom[1]) * (gto[1] - gfrom[1]) > 8) =>
               RectCenter(gfrom, gto) \notin gset
        /\ (gfrom = <<0, 0>> /\ gto = <<4, 4>>) =>
               /\ \A p \in gset : 2 <= SqDist(p, <<2, 2>>) /\ SqDist(p, <<2, 2>>) <= 6
               /\ <<2, 2>> \notin gset

C3_Witness ==
    /\ gphase = "done"
    /\ gtype = "Circle"
    /\ gfrom = <<0, 0>>
    /\ gto = <<4, 4>>
    /\ gprior = {}
    /\ <<2, 2>> \notin gset
    /\ <<0, 2>> \in gset
    /\ <<1, 1>> \in gset

(***************************************************************************)
(* Key bindings on their own: Insertion mode, with a table that imap       *)
(* command lines have added to the arrow bindings; the table is any        *)
(* assignment of an expansion below to the triggers a and z, which         *)
(* includes a -> a, a -> aa, a -> z with z -> a, and the chain             *)
(* a -> <Left><Left> over the built-in <Left> -> <Esc>hi.                  *)
(***************************************************************************)
\* Keys pressed.
MaxBindKeys == 2

BindKeys == {"a", "z", "<Left>"}

UserTriggers == {"a", "z"}

UserExpansions ==
    { <<"a">>, <<"z">>, <<"a", "a">>, <<"z", "a">>, <<"<Left>", "<Left>">> }

\* The arrow bindings and, for the triggers of t, the expansions t gives.
WithUser(t) ==
    [k \in DOMAIN DefaultBindings \cup {<<"Insertion", <<u>>>> : u \in DOMAIN t} |->
        IF k[2][1] \in DOMAIN t THEN t[k[2][1]] ELSE DefaultBindings[k]]

BindCursors == {<<0, 0>>, <<1, 1>>}

BindInit ==
    /\ \E c \in BindCursors, d \in SUBSET UserTriggers :
           \E t \in [d -> UserExpansions] :
               EngineStart("Insertion", c, NoAnchor, WithUser(t))
    /\ BudgetInit
    /\ GeoOff
    /\ observe = TRUE
    /\ runKey = ""
    /\ runLen = 0
    /\ runStart = cursor

\* A key pressed.
BindKey(k) ==
    /\ nkeys < MaxBindKeys
    /\ KeyEvent(k)
    /\ nkeys' = nkeys + 1
    /\ UNCHANGED ncmds

BindNext ==
    \/ \E k \in BindKeys : BindKey(k)
    \/ Expand

BindSpec == BindInit /\ [][BindNext]_vars

\* The dispatcher does not wait between the tokens of an expansion.
FairBindSpec == BindSpec /\ WF_vars(Expand)

(***************************************************************************)
(* C9: for every binding table, including a self-referential binding and   *)
(* mutually recursive bindings, processing a single key token terminates:  *)
(* expansion is cut off once the expansion depth exceeds the bound (32),   *)
(* the remaining expansion is dropped as a no-op, and the engine keeps     *)
(* processing later tokens normally; a non-recursive chain (a bound to two *)
(* tokens that are bound to a motion, here a -> <Left><Left>) expands      *)
(* fully and applies the motion twice.                                     *)
(***************************************************************************)
Bound(m, tok) == <<m, <<tok>>>> \in DOMAIN bindings

C9_Terminates == (work # <<>>) ~> (work = <<>>)

C9_DepthBounded == \A i \in 1..Len(work) : work[i].depth <= MaxDepth

C9_CutOff ==
    (Expand /\ Bound(mode, Head(work).tok) /\ Head(work).depth = MaxDepth) =>
        /\ work' = <<>>
        /\ status' = "RemapCycle"
        /\ UNCHANGED <<mode, cursor, anchor, pending, canvas, selection, bindings, proc>>

C9_Continues ==
    (status = "RemapCycle" /\ work = <<>> /\ nkeys < MaxBindKeys) =>
        (proc = "running" /\ ENABLED BindKey("<Left>"))

C9_Chain ==
    (/\ work = <<>>
     /\ nkeys = 1
     /\ runKey = "a"
     /\ Bound("Insertion", "a")
     /\ bindings[<<"Insertion", <<"a">>>>] = <<"<Left>", "<Left>">>) =>
        /\ cursor = Shifted(runStart, -1, 0, 2)
        /\ mode = "Insertion"
        /\ status = ""

C9_ExpansionTerminates ==
    /\ C9_Terminates
    /\ [](C9_DepthBounded /\ C9_Continues /\ C9_Chain)
    /\ [][C9_CutOff]_vars

\* A cycle was cut off, and the key pressed after it was processed.
C9_Witness ==
    /\ status = "RemapCycle"
    /\ work = <<>>
    /\ nkeys = 2
    /\ runKey = "<Left>"
    /\ cursor = Shifted(runStart, -1, 0, 1)
    /\ bindings[<<"Insertion", <<"a">>>>] = <<"a">>

(***************************************************************************)
(* C5: after any sequence of key tokens in any modes the cursor (x, y)     *)
(* satisfies 0 <= x < w and 0 <= y < h for the canvas size (w, h).         *)
(***************************************************************************)
C5_CursorInCanvas ==
    /\ 0 <= cursor[1] /\ cursor[1] < CanvasW
    /\ 0 <= cursor[2] /\ cursor[2] < CanvasH

\* From (0,0), h and k have wrapped the cursor to the opposite corner.
C5_Witness ==
    /\ cursor = <<CanvasW - 1, CanvasH - 1>>
    /\ nkeys = 2
    /\ mode = "Normal"

(***************************************************************************)
(* C6: in Normal or Visual mode, s (requires_positions = true) pressed     *)
(* with no following object leaves cursor, mode and canvas unchanged and   *)
(* only becomes the pending verb; when the next token is a motion object,  *)
(* the object runs first, then the verb's action runs with exactly the set *)
(* {cursor before the motion, cursor after the motion}, and the pending    *)
(* verb is cleared: exactly those pixels turn white and no others.         *)
(***************************************************************************)
NormalOrVisual == mode \in {"Normal", "Visual"}

\* The cursor one step of object o away, with wrapping.
Moved(p, o) ==
    CASE o = "h" -> Shifted(p, -1, 0, 1)
      [] o = "l" -> Shifted(p, 1, 0, 1)
      [] o = "k" -> Shifted(p, 0, -1, 1)
      [] o = "j" -> Shifted(p, 0, 1, 1)
      [] o = "." -> p

C6_SPressed ==
    (Key("s") /\ NormalOrVisual) =>
        /\ pending' = "s"
        /\ UNCHANGED <<cursor, mode, anchor, canvas, selection, visual_type, proc>>

C6_ObjectAfterS ==
    \A o \in ObjectNames :
        (Key(o) /\ NormalOrVisual /\ pending = "s") =>
            /\ cursor' = Moved(cursor, o)
            /\ pending' = NoVerb
            /\ \A p \in Coords :
                  canvas'[p] = IF p \in {cursor, Moved(cursor, o)}
                               THEN "white" ELSE canvas[p]
            /\ UNCHANGED <<mode, selection, proc>>

C6_VerbThenObject == [][C6_SPressed /\ C6_ObjectAfterS]_vars

\* s then l from (0,0): the two pixels of the motion are white, no other is.
C6_Witness ==
    /\ nkeys = 2
    /\ cursor = <<1, 0>>
    /\ pending = NoVerb
    /\ \A p \in Coords : canvas[p] = "white" <=> p \in {<<0, 0>>, <<1, 0>>}
    /\ \A p \in Coords : canvas[p] \in {"white", "new"}

(***************************************************************************)
(* C7: starting in Normal mode, pressing v (Square) or V (Circle), then    *)
(* any sequence of motions, then i: the persisted selection set equals     *)
(* select_pixels(policy, rectangle) for the rectangle spanned by the       *)
(* cursor position when v/V was pressed and the cursor position when i is  *)
(* pressed (corners normalized by min/max), any previous selection content *)
(* is discarded, and the mode is Insertion.                                *)
(*                                                                         *)
(* The cursor position when v/V was pressed is the anchor: v/V set it, and *)
(* the motions leave it and the policy alone.                              *)
(***************************************************************************)
\* The coordinates of the closed rectangle a-b (corners in any order).
RectOf(a, b) ==
    {p \in Coords : /\ Min(a[1], b[1]) <= p[1] /\ p[1] <= Max(a[1], b[1])
                    /\ Min(a[2], b[2]) <= p[2] /\ p[2] <= Max(a[2], b[2])}

\* The selection geometry of the rectangle a-b under a policy, as the
\* specification states it.
Geometry(policy, a, b) ==
    IF policy = "Square"
    THEN RectOf(a, b)
    ELSE LET lo == <<Min(a[1], b[1]), Min(a[2], b[2])>>
             hi == <<Max(a[1], b[1]), Max(a[2], b[2])>>
         IN  {p \in RectOf(a, b) :
                 RingTest(SqDist(p, RectCenter(lo, hi)), hi[1] - lo[1])}

C7_EnterVisual ==
    /\ (Key("v") /\ mode = "Normal") =>
           (mode' = "Visual" /\ anchor' = cursor /\ visual_type' = "Square")
    /\ (Key("V") /\ mode = "Normal") =>
           (mode' = "Visual" /\ anchor' = cursor /\ visual_type' = "Circle")

C7_MotionInVisual ==
    \A o \in ObjectNames :
        (Key(o) /\ mode = "Visual") =>
            UNCHANGED <<mode, anchor, visual_type, selection>>

C7_Materialize ==
    (Key("i") /\ mode = "Visual") =>
        /\ mode' = "Insertion"
        /\ selection' = Geometry(visual_type, anchor, cursor)

C7_VisualThenInsert == [][C7_EnterVisual /\ C7_MotionInVisual /\ C7_Materialize]_vars

\* V, l, l, l, i: the ring of the rectangle (0,0)-(3,0), which leaves out
\* its center (1,0).
C7_Witness ==
    /\ mode = "Insertion"
    /\ visual_type = "Circle"
    /\ cursor = <<3, 0>>
    /\ nkeys = 5
    /\ selection = Geometry("Circle", <<0, 0>>, <<3, 0>>)
    /\ selection = {<<0, 0>>, <<2, 0>>, <<3, 0>>}

(***************************************************************************)
(* C8: from Normal mode, ':' then 'q','u','i','t' (or just 'q') then Enter *)
(* closes the engine: the next call of input returns false, and no call of *)
(* input returns false before a handler has issued a close request.        *)
(***************************************************************************)
C8_QuitLine ==
    (CommandEnter /\ Join(buffer) \in {"q", "quit"}) => closed'

C8_NextInputFalse ==
    (InputCall /\ closed) => proc' = "exited"

C8_NoEarlyFalse ==
    (proc' = "exited") => closed

C8_QuitCloses == [][C8_QuitLine /\ C8_NextInputFalse /\ C8_NoEarlyFalse]_vars

\* ':', 'q', Enter, then the call of input that reports closed.
C8_Witness ==
    /\ proc = "exited"
    /\ closed
    /\ nkeys = 1
    /\ ncmds = 1
    /\ mode = "Normal"

(***************************************************************************)
(* C10: no sequence of key tokens processed by the dispatch loop aborts    *)
(* the process: every handler invocation completes normally, including a   *)
(* Command-mode line imap with zero or one argument and a verb that        *)
(* requires positions (s, _) fired with no position set.                   *)
(***************************************************************************)
C10_NoAbort == proc # "panicked"

(***************************************************************************)
(* Steps of the editor named by the token they process.                    *)
(***************************************************************************)
\* The key tok is pressed.
Pressed(tok) ==
    \/ Key(tok)
    \/ CommandChar(tok)
    \/ (tok = "<Enter>" /\ CommandEnter)
    \/ (tok = "<Esc>" /\ CommandEscape)

\* The token tok is taken from a pending expansion.
Expanded(tok) == Expand /\ Head(work).tok = tok

Processes(tok) == Pressed(tok) \/ Expanded(tok)

(***************************************************************************)
(* C11: in Command mode, Enter on a line whose first word is not a         *)
(* registered command name (q, quit, imap) reports UnknownCommand on the   *)
(* status line, clears the text buffer and returns the mode to Normal, and *)
(* leaves cursor, canvas, selection set, region policy, bindings and the   *)
(* closed flag unchanged.                                                  *)
(***************************************************************************)
\* The characters of a line up to its first space, leading spaces skipped.
RECURSIVE FirstWord(_)
FirstWord(text) ==
    IF text = <<>> THEN <<>>
    ELSE IF Head(text) = " "
         THEN FirstWord(Tail(text))
         ELSE IF Len(text) = 1 \/ text[2] = " "
              THEN <<Head(text)>>
              ELSE <<Head(text)>> \o FirstWord(Tail(text))

UnknownLine(text) ==
    FirstWord(text) \notin {<<"q">>, <<"q", "u", "i", "t">>, <<"i", "m", "a", "p">>}

C11_Step ==
    (Processes("<Enter>") /\ mode = "Command" /\ UnknownLine(buffer)) =>
        /\ status' = "UnknownCommand"
        /\ buffer' = <<>>
        /\ mode' = "Normal"
        /\ UNCHANGED <<cursor, canvas, selection, visual_type, bindings, closed, proc>>

C12_Step ==
    (Processes("<Esc>") /\ ~Bound(mode, "<Esc>")) =>
        /\ mode' = "Normal"
        /\ selection' = {}
        /\ UNCHANGED <<cursor, canvas>>

C12_Escape == [][C12_Step]_vars

\* v, l, i, a, Escape: the two selected pixels were painted, so the
\* selection was not empty when Escape came.
C12_Witness ==
    /\ mode = "Normal"
    /\ selection = {}
    /\ nkeys = 5
    /\ cursor = <<1, 0>>
    /\ canvas[<<0, 0>>] = "red"
    /\ canvas[<<1, 0>>] = "red"

(***************************************************************************)
(* C13: in Normal or Visual mode, when a verb that requires positions is   *)
(* pending and the next token matches neither a verb nor an object, the    *)
(* token is discarded and the pending verb is cleared: a motion pressed    *)
(* after that only moves the cursor and the verb's action never fires.     *)
(***************************************************************************)
UnmatchedKeys ==
    Keys \ {"h", "j", "k", "l", ".", "s", "<S-+>", "-", ":", "i", "v", "V",
            "H", "J", "K", "L", "_", "<Esc>"}

C13_Discard ==
    \A k \in UnmatchedKeys :
        (Key(k) /\ NormalOrVisual /\ pending # NoVerb) =>
            /\ pending' = NoVerb
            /\ UNCHANGED <<cursor, mode, anchor, canvas, selection, proc>>

C13_MotionAlone ==
    \A o \in ObjectNames :
        (Key(o) /\ NormalOrVisual /\ pending = NoVerb) =>
            /\ cursor' = Moved(cursor, o)
            /\ pending' = NoVerb
            /\ UNCHANGED <<canvas, mode, selection, proc>>

C13_UnmatchedCancels == [][C13_Discard /\ C13_MotionAlone]_vars

\* s, x, l: the cursor has moved and no pixel has changed.
C13_Witness ==
    /\ nkeys = 3
    /\ mode = "Normal"
    /\ cursor = <<1, 0>>
    /\ pending = NoVerb
    /\ \A p \in Coords : canvas[p] = "new"

(***************************************************************************)
(* C14: in Insertion mode, a token that is not a bound verb and is a       *)
(* palette key sets the palette color on exactly the cursor pixel when the *)
(* persisted selection set is empty, and on exactly the pixels of the      *)
(* selection set when it is non-empty; a token that is not in the palette  *)
(* changes no pixel.  In both cases mode, cursor and selection set are     *)
(* unchanged.                                                              *)
(***************************************************************************)
\* The tokens that reach the edit callback in Insertion mode.
EditTokens ==
    (Keys \cup CmdChars) \
        {"s", "<S-+>", "-", ":", "i", "v", "V", "H", "J", "K", "L", "_", "<Esc>"}

\* The canvas with exactly the pixels of ps set to color.
Painted(cv, ps, color) ==
    [p \in Coords |-> IF p \in ps THEN color ELSE cv[p]]

C14_Step ==
    \A k \in EditTokens :
        (mode = "Insertion" /\ ~Bound("Insertion", k) /\ Processes(k)) =>
            /\ (k = "a" /\ selection = {}) => canvas' = Painted(canvas, {cursor}, "red")
            /\ (k = "z" /\ selection = {}) => canvas' = Painted(canvas, {cursor}, "green")
            /\ (k = "e" /\ selection = {}) => canvas' = Painted(canvas, {cursor}, "blue")
            /\ (k = "a" /\ selection # {}) => canvas' = Painted(canvas, selection, "red")
            /\ (k = "z" /\ selection # {}) => canvas' = Painted(canvas, selection, "green")
            /\ (k = "e" /\ selection # {}) => canvas' = Painted(canvas, selection, "blue")
            /\ k \notin {"a", "z", "e"} => canvas' = canvas
            /\ UNCHANGED <<mode, cursor, selection>>

C14_EditPaints == [][C14_Step]_vars

\* v, l, l, i, z: the three selected pixels are green and no other pixel is.
C14_Witness ==
    /\ mode = "Insertion"
    /\ nkeys = 5
    /\ cursor = <<2, 0>>
    /\ selection = {<<0, 0>>, <<1, 0>>, <<2, 0>>}
    /\ \A p \in Coords : canvas[p] = IF p \in selection THEN "green" ELSE "new"

(***************************************************************************)
(* C15: after a Visual-mode selection (either policy, any rectangle) is    *)
(* materialized with i, typing a palette key paints every coordinate of    *)
(* the Selection Geometry output for that rectangle and policy and no      *)
(* coordinate outside it.                                                  *)
(***************************************************************************)
\* The canvas once the palette key k has been typed in the state st.
AfterKey(st, k) == process(st, k, 0).canvas

\* i pressed in Visual mode: the step that materializes the selection.
Materializes == Key("i") /\ mode = "Visual"

\* As claimed: the key typed next paints the Geometry output and nothing else.
C15_PaintsGeometry ==
    [][Materializes =>
          \A k \in PaletteKeys :
              ~Bound("Insertion", k)' =>
                  AfterKey(State, k)' =
                      Painted(canvas', Geometry(visual_type, anchor, cursor), palette[k])]_vars

\* As amended: the Geometry output when it is not empty, otherwise the cursor
\* pixel alone.
C15_PaintTargets(policy, a, b) ==
    IF Geometry(policy, a, b) = {} THEN {b} ELSE Geometry(policy, a, b)

C15_PaintsGeometryOrCursor ==
    [][Materializes =>
          \A k \in PaletteKeys :
              ~Bound("Insertion", k)' =>
                  AfterKey(State, k)' =
                      Painted(canvas', C15_PaintTargets(visual_type, anchor, cursor), palette[k])]_vars

\* V, h, i, a: the ring of the rectangle (0,0)-(5,0) is empty, and the key
\* has painted the cursor pixel.
C15_Witness ==
    /\ mode = "Insertion"
    /\ visual_type = "Circle"
    /\ nkeys = 4
    /\ cursor = <<5, 0>>
    /\ Geometry("Circle", <<0, 0>>, <<5, 0>>) = {}
    /\ selection = {}
    /\ \A p \in Coords : canvas[p] = IF p = <<5, 0>> THEN "red" ELSE "new"

(***************************************************************************)
(* C16: in Insertion mode, an arrow key (Left/Down/Up/Right) is expanded   *)
(* to Escape, the matching motion (h/j/k/l), i, processed token by token   *)
(* in the mode current at each token: afterwards the mode is Insertion     *)
(* again, the cursor has moved by exactly one step in that direction with  *)
(* wrapping, no pixel has changed, and the persisted selection set is      *)
(* empty.                                                                  *)
(***************************************************************************)
ArrowMotion == [l \in {"<Left>"} |-> "h"] @@ [d \in {"<Down>"} |-> "j"]
               @@ [u \in {"<Up>"} |-> "k"] @@ [r \in {"<Right>"} |-> "l"]

\* The state once the dispatcher has processed every token still waiting.
RECURSIVE Drained(_)
Drained(st) ==
    IF st.work = <<>> \/ st.proc # "running"
    THEN st
    ELSE Drained(process([st EXCEPT !.work = Tail(st.work)],
                         Head(st.work).tok, Head(st.work).depth))

ArrowTokens(a) ==
    <<[tok |-> "<Esc>", depth |-> 1], [tok |-> ArrowMotion[a], depth |-> 1],
      [tok |-> "i", depth |-> 1]>>

\* The arrow a is pressed in Insertion mode.
ArrowKey(a) == mode = "Insertion" /\ nkeys' = nkeys + 1 /\ Key(a)

\* Its three tokens wait and nothing else has changed.
ArrowWaiting(a) ==
    /\ work' = ArrowTokens(a)
    /\ UNCHANGED <<mode, cursor, canvas, selection, pending>>

C16_Afterwards(a) ==
    LET after == Drained([State EXCEPT !.work = ArrowTokens(a)])
    IN  /\ after.work = <<>>
        /\ after.mode = "Insertion"
        /\ after.cursor = Moved(cursor, ArrowMotion[a])
        /\ after.canvas = canvas
        /\ after.selection = {}

C17_AnchorIff == (anchor # NoAnchor) <=> (mode = "Visual")

C17_Entry ==
    \A k \in {"v", "V"} :
        (Processes(k) /\ mode \in {"Normal", "Insertion", "Visual"} /\ ~Bound(mode, k)) =>
            /\ mode' = "Visual"
            /\ anchor' = cursor
            /\ cursor' = cursor

C17_Exit ==
    \A k \in {"i", ":", "<Esc>"} :
        (Processes(k) /\ mode = "Visual") =>
            /\ mode' # "Visual"
            /\ anchor' = NoAnchor

ImapLine(t, e) == <<"i", "m", "a", "p", " ", t, " ", e>>

\* The table after imap t e: that one entry written, every other entry kept.
C18_Rebound(t, e) ==
    /\ DOMAIN bindings' = DOMAIN bindings \cup {<<"Insertion", <<t>>>>}
    /\ \A b \in DOMAIN bindings' :
           bindings'[b] = IF b = <<"Insertion", <<t>>>> THEN <<e>> ELSE bindings[b]

C18_Imap ==
    \A t \in {"a", "z"}, e \in {"a", "z", "e"} :
        (CommandEnter /\ buffer = ImapLine(t, e)) => C18_Rebound(t, e)

\* The tokens of an expansion, waiting at a depth.
Waiting(expansion, depth) ==
    [n \in 1..Len(expansion) |-> [tok |-> expansion[n], depth |-> depth]]

\* A bound trigger typed in its mode leaves its expansion waiting.
C18_Typed ==
    \A k \in Keys \cup CmdChars :
        (<<mode, <<k>>>> \in DOMAIN bindings /\ Pressed(k)) =>
            /\ mode = "Insertion"
            /\ work' = Waiting(bindings[<<"Insertion", <<k>>>>], 1)
            /\ UNCHANGED <<mode, cursor, canvas, selection, bindings, pending>>

\* Nothing waits after a key unless it was typed in Insertion mode and is the
\* trigger of a binding.
C18_NotElsewhere ==
    (work = <<>> /\ work' # <<>>) =>
        /\ mode = "Insertion"
        /\ \E k \in Keys \cup CmdChars :
               /\ <<"Insertion", <<k>>>> \in DOMAIN bindings
               /\ work' = Waiting(bindings[<<"Insertion", <<k>>>>], 1)

C18_Waiting ==
    (work # <<>> /\ Expand) =>
        IF <<mode, <<Head(work).tok>>>> \in DOMAIN bindings
        THEN /\ mode = "Insertion"
             /\ \/ work' = Waiting(bindings[<<"Insertion", <<Head(work).tok>>>>],
                                   Head(work).depth + 1) \o Tail(work)
                \/ Head(work).depth = MaxDepth /\ work' = <<>>
        ELSE work' = Tail(work)

C18_InsertionOnly == \A b \in DOMAIN bindings : b[1] = "Insertion"

C18_Bindings ==
    /\ [](C18_InsertionOnly)
    /\ [][C18_Imap /\ C18_Typed /\ C18_NotElsewhere /\ C18_Waiting]_vars

\* imap a z, imap a e, then i and a: the token waiting is e, that of the
\* later line.
C18_Witness ==
    /\ ncmds = 2
    /\ mode = "Insertion"
    /\ Bound("Insertion", "a")
    /\ bindings[<<"Insertion", <<"a">>>>] = <<"e">>
    /\ work = <<[tok |-> "e", depth |-> 1]>>
    /\ nkeys = 4
    /\ \A p \in Coords : canvas[p] = "new"

(***************************************************************************)
(* C19: in every reachable state, the highlighted coordinate set computed  *)
(* for the frame (in Visual mode the Selection Geometry output of the live *)
(* anchor/cursor rectangle under the current policy; otherwise the         *)
(* persisted selection set if non-empty, otherwise the single cursor       *)
(* position) is non-empty and contains only valid canvas coordinates.      *)
(***************************************************************************)
\* As claimed.
C19_HighlightNonEmpty ==
    /\ highlight(State) # {}
    /\ highlight(State) \subseteq Coords

\* As amended: empty only in Visual mode under the Circle policy, when the
\* ring of the live rectangle holds no pixel.
C19_HighlightValid ==
    /\ highlight(State) \subseteq Coords
    /\ mode = "Visual" => highlight(State) = Geometry(visual_type, anchor, cursor)
    /\ mode # "Visual" => highlight(State) # {}
    /\ visual_type = "Square" => highlight(State) # {}

\* V, h: the live rectangle is (0,0)-(5,0), whose ring is empty.
C19_Witness ==
    /\ mode = "Visual"
    /\ visual_type = "Circle"
    /\ anchor = <<0, 0>>
    /\ cursor = <<CanvasW - 1, 0>>
    /\ nkeys = 2
    /\ highlight(State) = {}

(***************************************************************************)
(* C20: in every reachable state, the persisted free-form selection set is *)
(* non-empty only while the mode is Insertion: it is filled only by i      *)
(* pressed in Visual mode and is empty again whenever the engine is in     *)
(* Normal, Visual or Command mode.                                         *)
(***************************************************************************)
\* The set becomes non-empty only by i pressed in Visual mode.
C20_Filled ==
    (selection' # selection /\ selection' # {}) =>
        /\ mode = "Visual"
        /\ Processes("i")
        /\ mode' = "Insertion"
        /\ selection' = Geometry(visual_type, anchor, cursor)

\* As claimed.
C20_OnlyInInsertion ==
    /\ [](selection # {} => mode = "Insertion")
    /\ [][C20_Filled]_vars

\* The set becomes empty only by Escape, or by i in Visual mode.
C20_Emptied ==
    (selection' # selection /\ selection' = {}) =>
        \/ Processes("<Esc>")
        \/ mode = "Visual" /\ Processes("i")

\* A non-empty set outlives Insertion mode only when v, V or ':' leaves it.
C20_Outlives ==
    (selection' # {} /\ mode = "Insertion" /\ mode' # "Insertion") =>
        /\ selection' = selection
        /\ \/ Processes("v") /\ mode' = "Visual"
           \/ Processes("V") /\ mode' = "Visual"
           \/ Processes(":") /\ mode' = "Command"

\* As amended.
C20_FilledByI == [][C20_Filled /\ C20_Emptied /\ C20_Outlives]_vars

\* v, l, i, v: Insertion left by v with the set still filled.
C20_Witness ==
    /\ mode = "Visual"
    /\ visual_type = "Square"
    /\ anchor = <<1, 0>>
    /\ cursor = <<1, 0>>
    /\ selection = {<<0, 0>>, <<1, 0>>}
    /\ nkeys = 4

=============================================================================
